---- MODULE Spec2Model ----
(***************************************************************************)
(* Painel Financeiro (src/app.py): one Streamlit script that reads a       *)
(* spreadsheet, refines it into a ledger (DataFrame df), filters it,       *)
(* computes the balance KPIs, the balance chart and the daily statement,   *)
(* and writes edited pending entries back to the spreadsheet.              *)
(*                                                                         *)
(* Conventions of the model                                                *)
(*  - text that the code takes apart (amounts, dates, Year-Month keys) is  *)
(*    a sequence of one-character strings; text that the code only         *)
(*    compares is a TLA+ string;                                           *)
(*  - a number is an integer count of hundredths (1234.56 is 123456); the  *)
(*    cells of the model carry at most two decimals;                       *)
(*  - a timestamp is <<year, month, day>> (every cell is a date at         *)
(*    midnight); NaT is <<0, 0, 0>>;                                       *)
(*  - a DataFrame is the sequence of its rows, each row carrying its index *)
(*    label in the field idx.                                              *)
(***************************************************************************)
EXTENDS Integers, Sequences, FiniteSets, TLC

\* Largest number of rows of the spreadsheet.
MaxLinhas == 3

\* Largest number of successful writes to the spreadsheet in one session.
MaxSalvamentos == 1

----------------------------------------------------------------------------
(* Characters and numbers *)

Digitos == <<"0", "1", "2", "3", "4", "5", "6", "7", "8", "9">>

EhDigito(c) == \E i \in 1..10 : Digitos[i] = c

ValorDigito(c) == (CHOOSE i \in 1..10 : Digitos[i] = c) - 1

SoDigitos(s) == \A i \in 1..Len(s) : EhDigito(s[i])

\* int() of a string of digits.
RECURSIVE Nat10(_)
Nat10(s) ==
    IF s = <<>> THEN 0
    ELSE Nat10(SubSeq(s, 1, Len(s) - 1)) * 10 + ValorDigito(s[Len(s)])

\* str() of a natural number.
RECURSIVE NatStr(_)
NatStr(n) ==
    IF n < 10 THEN <<Digitos[n + 1]>>
    ELSE NatStr(n \div 10) \o <<Digitos[(n % 10) + 1]>>

Abs(n) == IF n < 0 THEN -n ELSE n

\* str() of a Python int.
IntStr(n) == IF n < 0 THEN <<"-">> \o NatStr(-n) ELSE NatStr(n)

\* str() of a Python float holding c hundredths: the shortest repr, which
\* always has a decimal point (200.0, 200.5, 1234.56).
FloatStr(c) ==
    LET f == Abs(c) % 100
        frac == IF f % 10 = 0 THEN NatStr(f \div 10)
                ELSE IF f < 10 THEN <<"0">> \o NatStr(f) ELSE NatStr(f)
    IN  (IF c < 0 THEN <<"-">> ELSE <<>>) \o NatStr(Abs(c) \div 100) \o <<".">> \o frac

\* Position of the first occurrence of character c in s, 0 when absent.
Pos(s, c) ==
    IF \E i \in 1..Len(s) : s[i] = c
    THEN CHOOSE i \in 1..Len(s) : s[i] = c /\ \A j \in 1..(i - 1) : s[j] # c
    ELSE 0

NaoEhPonto(c) == c # "."

\* Series.str.replace('.', '', regex=False)
RemovePontos(s) == SelectSeq(s, NaoEhPonto)

\* Series.str.replace(',', '.')
VirgulaParaPonto(s) == [i \in 1..Len(s) |-> IF s[i] = "," THEN "." ELSE s[i]]

\* pd.to_numeric(text, errors='coerce'): an optional sign, digits, an optional
\* decimal point and digits. ok = FALSE is NaN (the text is no number).
ToNumericStr(s) ==
    LET neg   == Len(s) > 0 /\ s[1] = "-"
        corpo == IF neg THEN Tail(s) ELSE s
        p     == Pos(corpo, ".")
        int   == IF p = 0 THEN corpo ELSE SubSeq(corpo, 1, p - 1)
        frac  == IF p = 0 THEN <<>> ELSE SubSeq(corpo, p + 1, Len(corpo))
        ok    == /\ SoDigitos(int) /\ SoDigitos(frac)
                 /\ Len(int) + Len(frac) > 0 /\ Len(frac) <= 2
        mag   == Nat10(int) * 100
                 + (IF Len(frac) = 1 THEN Nat10(frac) * 10 ELSE Nat10(frac))
    IN  IF ok THEN [ok |-> TRUE, v |-> IF neg THEN -mag ELSE mag]
        ELSE [ok |-> FALSE, v |-> 0]

----------------------------------------------------------------------------
(* Cells of the raw table *)

NaT == <<0, 0, 0>>

\* An empty cell (NaN / None).
NaN == [t |-> "nan", s |-> <<>>, n |-> 0, d |-> NaT, x |-> ""]

\* A text cell of a column the code takes apart character by character.
Str(s) == [NaN EXCEPT !.t = "str", !.s = s]

\* A text cell of a column the code only compares.
Txt(x) == [NaN EXCEPT !.t = "str", !.x = x]

\* A numeric cell holding a Python int (n units).
IntC(n) == [NaN EXCEPT !.t = "int", !.n = n]

\* A numeric cell holding a float (c hundredths).
FloatC(c) == [NaN EXCEPT !.t = "float", !.n = c]

\* A cell holding a timestamp.
Ts(d) == [NaN EXCEPT !.t = "ts", !.d = d]

\* The number a numeric cell holds, in hundredths.
Centavos(c) == IF c.t = "int" THEN c.n * 100 ELSE c.n

\* Series.astype(str) on one cell of the amount column.
AsTypeStr(c) ==
    CASE c.t = "str"   -> c.s
      [] c.t = "int"   -> IntStr(c.n)
      [] c.t = "float" -> FloatStr(c.n)
      [] OTHER         -> <<"n", "a", "n">>

\* Series.astype(str) on one cell of a text column. Up to pandas 2 the result
\* is an object column and NaN becomes the text "nan"; from pandas 3 on
\* (dtype_str) the result has the str dtype, which keeps NaN missing.
TextoStr(c, dtype_str) == IF c.t = "nan" /\ ~dtype_str THEN Txt("nan") ELSE c

\* Series.fillna(v) on one cell.
FillNa(c, v) == IF c.t = "nan" THEN v ELSE c

----------------------------------------------------------------------------
(* Dates *)

Bissexto(y) == (y % 4 = 0 /\ y % 100 # 0) \/ y % 400 = 0

DiasNoMes(y, m) ==
    IF m = 2 THEN (IF Bissexto(y) THEN 29 ELSE 28)
    ELSE IF m \in {4, 6, 9, 11} THEN 30 ELSE 31

\* Parsing of one text cell by pd.to_datetime(errors='coerce'): the text
\* YYYY-MM-DD of a calendar date gives its timestamp, any other text of the
\* model gives NaT.
ParseData(s) ==
    IF /\ Len(s) = 10 /\ s[5] = "-" /\ s[8] = "-"
       /\ SoDigitos(SubSeq(s, 1, 4)) /\ SoDigitos(SubSeq(s, 6, 7))
       /\ SoDigitos(SubSeq(s, 9, 10))
    THEN LET y == Nat10(SubSeq(s, 1, 4))
             m == Nat10(SubSeq(s, 6, 7))
             d == Nat10(SubSeq(s, 9, 10))
         IN  IF y >= 1 /\ m \in 1..12 /\ d >= 1 /\ d <= DiasNoMes(y, m)
             THEN <<y, m, d>> ELSE NaT
    ELSE NaT

\* pd.to_datetime(errors='coerce') on one cell.
ToDatetime(c) ==
    CASE c.t = "ts"  -> c.d
      [] c.t = "str" -> ParseData(c.s)
      [] OTHER       -> NaT

\* a < b on timestamps.
DataMenor(a, b) ==
    \/ a[1] < b[1]
    \/ a[1] = b[1] /\ a[2] < b[2]
    \/ a[1] = b[1] /\ a[2] = b[2] /\ a[3] < b[3]

\* Zero-padded decimal of n, w characters wide.
RECURSIVE Pad(_, _)
Pad(n, w) == IF Len(NatStr(n)) >= w THEN NatStr(n) ELSE <<"0">> \o Pad(n, w - 1)

\* Timestamp.strftime('%Y-%m')
StrfAnoMes(d) == Pad(d[1], 4) \o <<"-">> \o Pad(d[2], 2)

\* pd.Timestamp(year, month, day=1) from map(int, mes_selecionado.split('-'))
InicioDoMes(mes) ==
    LET p == Pos(mes, "-")
    IN  <<Nat10(SubSeq(mes, 1, p - 1)), Nat10(SubSeq(mes, p + 1, Len(mes))), 1>>

\* Order of the characters of a Year-Month key, as Python compares them.
Alfabeto == <<"-", "0", "1", "2", "3", "4", "5", "6", "7", "8", "9">>

Ordem(c) == CHOOSE i \in 1..Len(Alfabeto) : Alfabeto[i] = c

\* a < b on Python strings.
RECURSIVE TextoMenor(_, _)
TextoMenor(a, b) ==
    IF b = <<>> THEN FALSE
    ELSE IF a = <<>> THEN TRUE
    ELSE IF a[1] # b[1] THEN Ordem(a[1]) < Ordem(b[1])
    ELSE TextoMenor(Tail(a), Tail(b))

----------------------------------------------------------------------------
(* DataFrame helpers *)

Reverso(s) == [i \in 1..Len(s) |-> s[Len(s) + 1 - i]]

\* One step of the insertion sort numpy's quicksort runs on arrays of at most
\* 16 elements: r goes after every row whose date is not later (stable).
RECURSIVE Insere(_, _)
Insere(s, r) ==
    IF s = <<>> THEN <<r>>
    ELSE IF DataMenor(r.Data_Transacao, s[1].Data_Transacao) THEN <<r>> \o s
    ELSE <<s[1]>> \o Insere(Tail(s), r)

RECURSIVE OrdenaEstavel(_)
OrdenaEstavel(s) ==
    IF s = <<>> THEN <<>>
    ELSE Insere(OrdenaEstavel(SubSeq(s, 1, Len(s) - 1)), s[Len(s)])

\* DataFrame.sort_values(by='Data_Transacao', ascending=...) with the default
\* kind: pandas (nargsort) sorts the reversed column and reverses the result
\* when descending, so rows of equal date keep their relative order both ways.
SortValues(s, ascending) ==
    IF ascending THEN OrdenaEstavel(s) ELSE Reverso(OrdenaEstavel(Reverso(s)))

\* Series.sum() of a column of numbers.
RECURSIVE Soma(_)
Soma(ns) == IF ns = <<>> THEN 0 ELSE ns[1] + Soma(Tail(ns))

\* Series.cumsum() of a column of numbers.
RECURSIVE CumSum(_)
CumSum(ns) ==
    IF ns = <<>> THEN <<>>
    ELSE LET ant == CumSum(SubSeq(ns, 1, Len(ns) - 1))
         IN  Append(ant, (IF ant = <<>> THEN 0 ELSE ant[Len(ant)]) + ns[Len(ns)])

----------------------------------------------------------------------------
(* PARTE 3: refinaria de dados *)

ColunasTexto == {"Instituicao", "Tipo_Movimento", "Categoria_Macro", "Descricao"}

\* TratamentoDatas with line 107 forgotten: the rows without a valid date stay.
TratamentoDatasSemDropna(raw) ==
    [i \in 1..Len(raw.rows) |->
       [idx |-> i - 1, cel |-> raw.rows[i],
        Data_Transacao |-> ToDatetime(raw.rows[i].Data_Transacao)]]

\* Lines 103-107: the dates are parsed and the rows without a valid date are
\* dropped. Each kept row carries its index label (its position as read).
TratamentoDatas(raw) ==
    LET comData == [i \in 1..Len(raw.rows) |->
                      [idx |-> i - 1, cel |-> raw.rows[i],
                       Data_Transacao |-> ToDatetime(raw.rows[i].Data_Transacao)]]
        TemData(r) == r.Data_Transacao # NaT
    IN  SelectSeq(comData, TemData)

\* Line 116: the dtype of the column as read (over every row of the table).
\* Up to pandas 2 it is object when some cell holds text; from pandas 3 on
\* (dtype_str) a column of text and blanks has the str dtype, and the column is
\* object only when it mixes text with other values.
ValorEhObjeto(raw, dtype_str) ==
    /\ \E i \in 1..Len(raw.rows) : raw.rows[i].Valor.t = "str"
    /\ dtype_str => \E i \in 1..Len(raw.rows) : raw.rows[i].Valor.t \notin {"str", "nan"}

\* Lines 116-121 on one cell of the amount column: the text is rewritten only
\* in an object column; to_numeric then parses text and keeps numbers, and
\* what it cannot parse becomes 0.0.
TratamentoValor(c, objeto) ==
    IF objeto
    THEN LET r == ToNumericStr(VirgulaParaPonto(RemovePontos(AsTypeStr(c))))
         IN  IF r.ok THEN r.v ELSE 0
    ELSE IF c.t \in {"int", "float"} THEN Centavos(c)
    ELSE IF c.t = "str"
         THEN (IF ToNumericStr(c.s).ok THEN ToNumericStr(c.s).v ELSE 0)
         ELSE 0

\* Lines 128-132 on one cell of the status column.
TratamentoStatus(c, presente, dtype_str) ==
    IF ~presente THEN "Realizado"
    ELSE TextoStr(FillNa(c, Txt("Realizado")), dtype_str).x

\* Lines 137-140 on one cell of a text column: astype(str) runs before fillna.
TratamentoTexto(c, presente, dtype_str) ==
    IF ~presente THEN "Não Informado"
    ELSE FillNa(TextoStr(c, dtype_str), Txt("-")).x

\* Lines 100-146. stop names the st.stop() the refinery ends at, "" when the
\* ledger is produced.
Refinaria(raw, dtype_str) ==
    IF "Data_Transacao" \notin raw.cols THEN [stop |-> "sem_data", df |-> <<>>]
    ELSE IF "Valor" \notin raw.cols THEN [stop |-> "sem_valor", df |-> <<>>]
    ELSE
      LET datados == TratamentoDatas(raw)
          objeto  == ValorEhObjeto(raw, dtype_str)
          Linha(r) ==
            [idx |-> r.idx,
             Data_Transacao |-> r.Data_Transacao,
             Valor |-> TratamentoValor(r.cel.Valor, objeto),
             Status |-> TratamentoStatus(r.cel.Status, "Status" \in raw.cols, dtype_str),
             Instituicao |->
               TratamentoTexto(r.cel.Instituicao, "Instituicao" \in raw.cols, dtype_str),
             Tipo_Movimento |->
               TratamentoTexto(r.cel.Tipo_Movimento, "Tipo_Movimento" \in raw.cols, dtype_str),
             Categoria_Macro |->
               TratamentoTexto(r.cel.Categoria_Macro, "Categoria_Macro" \in raw.cols, dtype_str),
             Descricao |->
               TratamentoTexto(r.cel.Descricao, "Descricao" \in raw.cols, dtype_str),
             Mes_Referencia |-> <<>>,
             Valor_Sinal |->
               IF "Valor_Sinal" \in raw.cols THEN r.cel.Valor_Sinal ELSE NaN]
      IN  [stop |-> "",
           df |-> SortValues([i \in 1..Len(datados) |-> Linha(datados[i])], FALSE)]

----------------------------------------------------------------------------
(* PARTE 2: conexão *)

\* Lines 44-89. fonte is the radio of line 27, arquivo the uploaded file
\* (<<>> when none), leitura_ok whether the read raises nothing.
Conexao(fonte, planilha, arquivo, leitura_ok) ==
    LET vazio == [cols |-> {}, rows |-> <<>>]
    IN  IF fonte = "sheets"
        THEN IF ~leitura_ok THEN [stop |-> "erro_conexao", raw |-> vazio]
             ELSE IF planilha.rows = <<>> \/ planilha.cols = {}
                  THEN [stop |-> "vazia", raw |-> vazio]
                  ELSE [stop |-> "", raw |-> planilha]
        ELSE IF arquivo = <<>> THEN [stop |-> "aguardando_arquivo", raw |-> vazio]
             ELSE IF ~leitura_ok THEN [stop |-> "erro_arquivo", raw |-> vazio]
             ELSE IF arquivo[1].rows = <<>> \/ arquivo[1].cols = {}
                  THEN [stop |-> "vazia", raw |-> vazio]
                  ELSE [stop |-> "", raw |-> arquivo[1]]

----------------------------------------------------------------------------
(* PARTE 4: motor de filtros *)

\* Line 157
ComMesReferencia(d) ==
    [i \in 1..Len(d) |->
       [d[i] EXCEPT !.Mes_Referencia = StrfAnoMes(d[i].Data_Transacao)]]

\* Line 158 (as a set; sorted() orders it by TextoMenor)
MesesDisponiveis(d) == {d[i].Mes_Referencia : i \in 1..Len(d)}

\* Line 163: the default of the month selectbox is the last of the sorted list.
UltimoMes(meses) == CHOOSE m \in meses : \A o \in meses : o = m \/ TextoMenor(o, m)

BancosUnicos(d) == {d[i].Instituicao : i \in 1..Len(d)}

CategoriasUnicas(d) == {d[i].Categoria_Macro : i \in 1..Len(d)}

StatusUnicos(d) == {d[i].Status : i \in 1..Len(d)}

\* The value a widget returns: what the user chose while its options are the
\* ones it was drawn with, its default otherwise (Streamlit identifies a
\* widget by its parameters).
ValorWidget(w, opcoes, padrao) == IF w.opcoes = opcoes THEN w.valor ELSE padrao

\* Filtrado with the status test of line 204 forgotten.
FiltradoSemStatus(d, mes, bancos, categorias, status) ==
    LET Passa(r) == /\ r.Mes_Referencia = mes
                    /\ r.Instituicao \in bancos
                    /\ r.Categoria_Macro \in categorias
    IN  IF mes # <<>> THEN SelectSeq(d, Passa) ELSE d

\* Lines 199-207. mes = <<>> is mes_selecionado = None.
Filtrado(d, mes, bancos, categorias, status) ==
    LET Passa(r) == /\ r.Mes_Referencia = mes
                    /\ r.Instituicao \in bancos
                    /\ r.Categoria_Macro \in categorias
                    /\ r.Status \in status
    IN  IF mes # <<>> THEN SelectSeq(d, Passa) ELSE d

----------------------------------------------------------------------------
(* PARTE 5: dashboard *)

\* The lambda of lines 243, 308 and 461: Receita is positive, anything else
\* negative.
ValorComSinal(r) == IF r.Tipo_Movimento = "Receita" THEN r.Valor ELSE -r.Valor

\* Line 243: df['Valor_Sinal'] is assigned on df itself.
ComValorSinal(d) ==
    [i \in 1..Len(d) |-> [d[i] EXCEPT !.Valor_Sinal = FloatC(ValorComSinal(d[i]))]]

\* Passado with <= for < at line 249: the first day of the selected month
\* counts as past.
PassadoComPrimeiroDia(d, mes, bancos, categorias, status) ==
    LET Antes(r) == /\ ~DataMenor(InicioDoMes(mes), r.Data_Transacao)
                    /\ r.Instituicao \in bancos
                    /\ r.Categoria_Macro \in categorias
                    /\ r.Status \in status
    IN  SelectSeq(d, Antes)

\* Lines 248-253
Passado(d, mes, bancos, categorias, status) ==
    LET Antes(r) == /\ DataMenor(r.Data_Transacao, InicioDoMes(mes))
                    /\ r.Instituicao \in bancos
                    /\ r.Categoria_Macro \in categorias
                    /\ r.Status \in status
    IN  SelectSeq(d, Antes)

\* Lines 236-253: df_passado, empty when the branch is not taken.
DfPassado(d, usar, mes, bancos, categorias, status) ==
    IF usar /\ mes # <<>>
    THEN Passado(ComValorSinal(d), mes, bancos, categorias, status)
    ELSE <<>>

\* Lines 234 and 255: df_passado['Valor_Sinal'].sum(), 0.0 when the branch is
\* not taken.
SaldoAnterior(passado) == Soma([i \in 1..Len(passado) |-> passado[i].Valor_Sinal.n])

\* df_filtrado[df_filtrado['Tipo_Movimento'] == tipo]['Valor'].sum()
TotalDoTipo(d, tipo) ==
    Soma([i \in 1..Len(d) |-> IF d[i].Tipo_Movimento = tipo THEN d[i].Valor ELSE 0])

\* Lines 277-280
DespesaFutura(d) ==
    Soma([i \in 1..Len(d) |->
            IF d[i].Tipo_Movimento = "Despesa" /\ d[i].Status = "Projetado"
            THEN d[i].Valor ELSE 0])

\* Lines 269-274
SaldoFinal(usar, anterior, resultado) ==
    IF usar THEN anterior + resultado ELSE resultado

\* Lines 305-316: the rows of df_grafico, each with Valor_Real and
\* Saldo_Acumulado.
Grafico(filtrado, usar, anterior) ==
    LET ord == SortValues(filtrado, TRUE)
        real == [i \in 1..Len(ord) |-> ValorComSinal(ord[i])]
        acum == CumSum(real)
    IN  [i \in 1..Len(ord) |->
           [lin |-> ord[i], Valor_Real |-> real[i],
            Saldo_Acumulado |-> IF usar THEN acum[i] + anterior ELSE acum[i]]]

\* Calc with line 465 forgotten: the running balance never starts from
\* saldo_anterior.
CalcSemBaseInicial(filtrado, usar, anterior) ==
    LET ord == SortValues(filtrado, TRUE)
        acum == CumSum([i \in 1..Len(ord) |-> ValorComSinal(ord[i])])
    IN  [i \in 1..Len(ord) |->
           [lin |-> ord[i], Valor_Real |-> ValorComSinal(ord[i]),
            Saldo_Acumulado_Ate_Aqui |-> acum[i]]]

\* Lines 456-468: the rows of df_calc, each with Valor_Real and
\* Saldo_Acumulado_Ate_Aqui.
Calc(filtrado, usar, anterior) ==
    LET ord == SortValues(filtrado, TRUE)
        real == [i \in 1..Len(ord) |-> ValorComSinal(ord[i])]
        acum == CumSum(real)
        base_inicial == IF usar THEN anterior ELSE 0
    IN  [i \in 1..Len(ord) |->
           [lin |-> ord[i], Valor_Real |-> real[i],
            Saldo_Acumulado_Ate_Aqui |-> acum[i] + base_inicial]]

\* Line 472: df_calc.sort_values(by=["Data_Transacao"], ascending=False)
Timeline(calc) ==
    LET chaves == [i \in 1..Len(calc) |->
                     [Data_Transacao |-> calc[i].lin.Data_Transacao, pos |-> i]]
        ord == SortValues(chaves, FALSE)
    IN  [i \in 1..Len(calc) |-> calc[ord[i].pos]]

\* Line 475: Series.unique() keeps the order of first appearance.
RECURSIVE DiasUnicos(_)
DiasUnicos(tl) ==
    IF tl = <<>> THEN <<>>
    ELSE LET ant == DiasUnicos(SubSeq(tl, 1, Len(tl) - 1))
             dia == tl[Len(tl)].lin.Data_Transacao
         IN  IF \E i \in 1..Len(ant) : ant[i] = dia THEN ant ELSE Append(ant, dia)

\* Lines 489-502: the summary of one day of the statement.
ResumoDoDia(tl, dia_atual) ==
    LET NoDia(r) == r.lin.Data_Transacao = dia_atual
        df_dia == SelectSeq(tl, NoDia)
        lins == [i \in 1..Len(df_dia) |-> df_dia[i].lin]
        soma_receita == TotalDoTipo(lins, "Receita")
        soma_despesa == TotalDoTipo(lins, "Despesa")
    IN  [dia |-> dia_atual,
         idxs |-> [i \in 1..Len(df_dia) |-> df_dia[i].lin.idx],
         soma_receita |-> soma_receita,
         soma_despesa |-> soma_despesa,
         saldo_dia_final |-> soma_receita - soma_despesa,
         saldo_total_acumulado |-> df_dia[1].Saldo_Acumulado_Ate_Aqui]

\* Lines 454-568: the daily statement, one summary per day, latest first.
Extrato(tl) ==
    LET dias == DiasUnicos(tl)
    IN  [i \in 1..Len(dias) |-> ResumoDoDia(tl, dias[i])]

----------------------------------------------------------------------------
(* PARTE 6: gestor de baixas *)

\* Lines 589-592
Pendente(d) ==
    LET EhPendente(r) == r.Tipo_Movimento = "Despesa" /\ r.Status = "Projetado"
    IN  SelectSeq(d, EhPendente)

SemEdicao == [idx |-> -1, col |-> "", Status |-> "", Valor |-> 0, Data_Transacao |-> NaT]

\* Lines 599-614: what st.data_editor returns for the pending rows after the
\* user's edit ed of one cell. na names the columns of the row whose cell the
\* user emptied.
Edicao(pendente, ed) ==
    [i \in 1..Len(pendente) |->
       LET r == pendente[i]
       IN  IF r.idx # ed.idx THEN [lin |-> r, na |-> {}]
           ELSE CASE ed.col = "Status" ->
                       [lin |-> [r EXCEPT !.Status = ed.Status], na |-> {}]
                  [] ed.col = "Valor" ->
                       [lin |-> [r EXCEPT !.Valor = ed.Valor], na |-> {}]
                  [] ed.col = "Data_Transacao" ->
                       [lin |-> [r EXCEPT !.Data_Transacao = ed.Data_Transacao],
                        na |-> {}]
                  [] ed.col = "limpa_Valor" -> [lin |-> r, na |-> {"Valor"}]
                  [] ed.col = "limpa_Data" -> [lin |-> r, na |-> {"Data_Transacao"}]
                  [] OTHER -> [lin |-> r, na |-> {}]]

\* Line 622: DataFrame.update aligns on the index label and overwrites a cell
\* only with a value that is not NA.
Update(d, edicao) ==
    [i \in 1..Len(d) |->
       IF \E j \in 1..Len(edicao) : edicao[j].lin.idx = d[i].idx
       THEN LET e == edicao[CHOOSE j \in 1..Len(edicao) : edicao[j].lin.idx = d[i].idx]
            IN  [c \in DOMAIN d[i] |->
                   IF c \in e.na \/ (c = "Valor_Sinal" /\ e.lin[c] = NaN)
                   THEN d[i][c] ELSE e.lin[c]]
       ELSE d[i]]

\* Line 627: the table conn.update(data=df) writes, one spreadsheet row per
\* row of df in df's order, the index left out.
ParaPlanilha(d) ==
    [cols |-> {"Data_Transacao", "Valor", "Status", "Instituicao", "Tipo_Movimento",
               "Categoria_Macro", "Descricao", "Mes_Referencia"}
              \cup (IF \E i \in 1..Len(d) : d[i].Valor_Sinal # NaN
                    THEN {"Valor_Sinal"} ELSE {}),
     rows |-> [i \in 1..Len(d) |->
                 [Data_Transacao |-> Ts(d[i].Data_Transacao),
                  Valor |-> FloatC(d[i].Valor),
                  Status |-> Txt(d[i].Status),
                  Instituicao |-> Txt(d[i].Instituicao),
                  Tipo_Movimento |-> Txt(d[i].Tipo_Movimento),
                  Categoria_Macro |-> Txt(d[i].Categoria_Macro),
                  Descricao |-> Txt(d[i].Descricao),
                  Mes_Referencia |-> Str(d[i].Mes_Referencia),
                  Valor_Sinal |-> d[i].Valor_Sinal]]]

----------------------------------------------------------------------------
(* One run of the script, lines 44-614 *)

WidgetNovo == [opcoes |-> {}, valor |-> {}]

MesNovo == [opcoes |-> {}, valor |-> <<>>]

\* BotaoSalvar with the test of line 617 forgotten: the block of the button
\* runs whenever there are pending rows.
BotaoSalvarSemClique(pendente, botao) == pendente # <<>>

\* Lines 594 and 617: the button is drawn when there are pending rows, and
\* its block runs in the run in which it was pressed.
BotaoSalvar(pendente, botao) == pendente # <<>> /\ botao

\* What a run leaves when it stops before anything is computed: line 42, the
\* widgets not drawn.
SaidaVazia ==
    [stop |-> "", leu |-> FALSE, cache |-> <<>>, df |-> <<>>,
     w_mes |-> MesNovo, w_bancos |-> WidgetNovo, w_categorias |-> WidgetNovo,
     w_status |-> WidgetNovo, usar_acumulado |-> TRUE, df_filtrado |-> <<>>,
     saldo_anterior |-> 0, total_receita_mes |-> 0, total_despesa_mes |-> 0,
     resultado_mes |-> 0, saldo_final |-> 0, despesa_futura |-> 0,
     df_grafico |-> <<>>, df_calc |-> <<>>, df_timeline |-> <<>>,
     extrato |-> <<>>, df_pendente |-> <<>>, df_edicao |-> <<>>,
     df_passado |-> <<>>,
     botao_salvar |-> FALSE, salvando |-> FALSE]

\* Lines 221-614, the dashboard and the pending-payments editor: d is df as
\* line 243 leaves it, f the values of the filters, filtrado the non-empty
\* df_filtrado, passado df_passado, anterior saldo_anterior. e holds the
\* inputs of the run.
Painel(e, sai, d, f, filtrado, passado, anterior) ==
    [sai EXCEPT
       !.df = d,
       !.usar_acumulado = e.usar,
       !.df_passado = passado,
       !.saldo_anterior = anterior,
       !.total_receita_mes = TotalDoTipo(filtrado, "Receita"),
       !.total_despesa_mes = TotalDoTipo(filtrado, "Despesa"),
       !.resultado_mes =
           TotalDoTipo(filtrado, "Receita") - TotalDoTipo(filtrado, "Despesa"),
       !.saldo_final =
           SaldoFinal(e.usar, anterior,
             TotalDoTipo(filtrado, "Receita") - TotalDoTipo(filtrado, "Despesa")),
       !.despesa_futura = DespesaFutura(filtrado),
       !.df_grafico = Grafico(filtrado, e.usar, anterior),
       !.df_calc = Calc(filtrado, e.usar, anterior),
       !.df_timeline = Timeline(Calc(filtrado, e.usar, anterior)),
       !.extrato = Extrato(Timeline(Calc(filtrado, e.usar, anterior))),
       !.df_pendente = Pendente(d),
       !.df_edicao = Edicao(Pendente(d), e.ed),
       !.salvando = BotaoSalvar(Pendente(d), e.botao)]

\* Lines 199-213: the cut, and the stop when nothing is left.
Corte(e, sai, d, f, filtrado) ==
    IF filtrado = <<>> THEN [sai EXCEPT !.stop = "sem_dados"]
    ELSE Painel(e, [sai EXCEPT !.df_filtrado = filtrado],
                IF e.usar /\ f.mes # <<>> THEN ComValorSinal(d) ELSE d, f, filtrado,
                DfPassado(d, e.usar, f.mes, f.bancos, f.categorias, f.status),
                SaldoAnterior(
                  DfPassado(d, e.usar, f.mes, f.bancos, f.categorias, f.status)))

\* Lines 161-195: the widgets of the sidebar, drawn with the options the
\* ledger d gives, and the values f they return.
Barra(e, d, f) ==
    Corte(e,
          [SaidaVazia EXCEPT
             !.df = d,
             !.w_mes = IF f.mes = <<>> THEN MesNovo
                       ELSE [opcoes |-> MesesDisponiveis(d), valor |-> f.mes],
             !.w_bancos = [opcoes |-> BancosUnicos(d), valor |-> f.bancos],
             !.w_categorias =
                 [opcoes |-> CategoriasUnicas(d), valor |-> f.categorias],
             !.w_status = [opcoes |-> StatusUnicos(d), valor |-> f.status]],
          d, f, Filtrado(d, f.mes, f.bancos, f.categorias, f.status))

\* Lines 157-195 on the refined ledger d.
MotorDeFiltros(e, d) ==
    Barra(e, d,
          [mes |-> IF MesesDisponiveis(d) = {} THEN <<>>
                   ELSE ValorWidget(e.wm, MesesDisponiveis(d),
                                    UltimoMes(MesesDisponiveis(d))),
           bancos |-> ValorWidget(e.wb, BancosUnicos(d), BancosUnicos(d)),
           categorias |->
               ValorWidget(e.wc, CategoriasUnicas(d), CategoriasUnicas(d)),
           status |-> ValorWidget(e.ws, StatusUnicos(d), StatusUnicos(d))])

\* Lines 97-146 and what follows: ref is the outcome of the refinery.
AposRefinaria(e, ref) ==
    IF ref.stop # "" THEN [SaidaVazia EXCEPT !.stop = ref.stop]
    ELSE MotorDeFiltros(e, ComMesReferencia(ref.df))

\* Lines 44-89 and what follows: con is the outcome of the connection.
AposConexao(e, con) ==
    IF con.stop # "" THEN [SaidaVazia EXCEPT !.stop = con.stop]
    ELSE AposRefinaria(e, Refinaria(con.raw, e.dtype_str))

\* The script from its top to the button of line 617. The inputs e of the run:
\* the source radio, the spreadsheet, the uploaded file, whether the read
\* succeeds, the states wm, wb, wc, ws of the month selectbox and of the three
\* multiselects, the toggle usar of line 230, the value botao st.button
\* returns in this run, the edit ed held by the data editor, and dtype_str,
\* whether the installed pandas gives text columns the str dtype.
Script(e) ==
    [AposConexao(e, Conexao(e.fonte, e.planilha, e.arquivo, e.leitura_ok))
       EXCEPT !.leu = e.fonte = "sheets",
              !.cache = IF e.fonte = "sheets" /\ e.leitura_ok
                        THEN <<e.planilha>> ELSE <<>>,
              !.botao_salvar = e.botao]

----------------------------------------------------------------------------
(* The spreadsheets the session may start from *)

\* The text YYYY-MM-DD of a date.
Iso(y, m, d) == Pad(y, 4) \o <<"-">> \o Pad(m, 2) \o <<"-">> \o Pad(d, 2)

Linha(data, valor, tipo, status, banco, categoria, descricao) ==
    [Data_Transacao |-> data, Valor |-> valor, Tipo_Movimento |-> tipo,
     Status |-> status, Instituicao |-> banco, Categoria_Macro |-> categoria,
     Descricao |-> descricao, Mes_Referencia |-> NaN, Valor_Sinal |-> NaN]

TodasColunas == {"Data_Transacao", "Valor", "Status", "Instituicao",
                 "Tipo_Movimento", "Categoria_Macro", "Descricao"}

\* Well-formed rows: two months, two rows on one day in each, a row on the
\* first day of a month, both statuses, two institutions, and in the earlier
\* month a movement type that is neither Receita nor Despesa.
CatalogoLimpo ==
    << Linha(Str(Iso(2024, 1, 5)), IntC(500), Txt("Receita"), Txt("Realizado"),
             Txt("Nubank"), Txt("Casa"), Txt("Salario")),
       Linha(Str(Iso(2024, 2, 3)), IntC(100), Txt("Receita"), Txt("Realizado"),
             Txt("Nubank"), Txt("Casa"), Txt("Venda")),
       Linha(Str(Iso(2024, 2, 3)), IntC(50), Txt("Despesa"), Txt("Projetado"),
             Txt("Itau"), Txt("Casa"), Txt("Luz")),
       Linha(Str(Iso(2024, 1, 20)), IntC(20), Txt("Despesa"), Txt("Projetado"),
             Txt("Nubank"), Txt("Casa"), Txt("Agua")),
       Linha(Str(Iso(2024, 1, 20)), IntC(70), Txt("Transferencia"), Txt("Realizado"),
             Txt("Itau"), Txt("Casa"), Txt("Pix")),
       Linha(Str(Iso(2024, 2, 1)), IntC(30), Txt("Despesa"), Txt("Realizado"),
             Txt("Nubank"), Txt("Casa"), Txt("Mercado")) >>

\* Malformed rows: locale-formatted, numeric, negative, unparseable and blank
\* amounts; invalid and blank dates; blank text cells.
CatalogoSujo ==
    << Linha(Str(Iso(2024, 2, 3)), Str(<<"1", ".", "2", "3", "4", ",", "5", "6">>),
             Txt("Receita"), NaN, NaN, Txt("Casa"), NaN),
       Linha(Str(Iso(2024, 2, 30)), IntC(200), Txt("Despesa"), Txt("Realizado"),
             Txt("Nubank"), Txt("Casa"), Txt("Luz")),
       Linha(Str(Iso(2024, 2, 7)), FloatC(20050), Txt("Despesa"), Txt("Realizado"),
             Txt("Nubank"), Txt("Casa"), Txt("Gas")),
       Linha(Str(Iso(2024, 1, 5)), Str(<<"a", "b", "c">>), Txt("Receita"),
             Txt("Realizado"), Txt("Nubank"), Txt("Casa"), Txt("Bonus")),
       Linha(NaN, Str(<<"2", "0", "0">>), Txt("Despesa"), Txt("Realizado"),
             Txt("Nubank"), Txt("Casa"), Txt("Taxa")),
       Linha(Str(Iso(2024, 2, 3)), IntC(-50), Txt("Receita"), Txt("Realizado"),
             Txt("Nubank"), Txt("Casa"), Txt("Estorno")),
       Linha(Str(Iso(2024, 2, 7)), NaN, NaN, Txt("Realizado"),
             Txt("Nubank"), Txt("Casa"), Txt("Vazio")) >>

\* The file the user uploads: one pending expense.
ArquivoExemplo ==
    [cols |-> TodasColunas,
     rows |-> << Linha(Str(Iso(2024, 2, 3)), IntC(50), Txt("Despesa"),
                       Txt("Projetado"), Txt("Itau"), Txt("Casa"), Txt("Luz")) >>]

\* The rows of catalogue cat at the positions S, in the catalogue's order.
Escolhe(cat, S) ==
    LET Dentro(i) == i \in S
        pos == SelectSeq([i \in 1..Len(cat) |-> i], Dentro)
    IN  [i \in 1..Len(pos) |-> cat[pos[i]]]

Escolhas(cat) == {S \in SUBSET (1..Len(cat)) : Cardinality(S) <= MaxLinhas}

\* The column sets of the malformed spreadsheets: every column, the optional
\* columns missing, each required column missing.
ColunasSujas ==
    { TodasColunas,
      TodasColunas \ {"Status", "Instituicao", "Descricao"},
      TodasColunas \ {"Data_Transacao"},
      TodasColunas \ {"Valor"} }

Planilhas ==
    {[cols |-> TodasColunas, rows |-> Escolhe(CatalogoLimpo, S)] :
        S \in Escolhas(CatalogoLimpo)}
    \cup
    {[cols |-> c, rows |-> Escolhe(CatalogoSujo, S)] :
        c \in ColunasSujas, S \in Escolhas(CatalogoSujo)}

\* The edits of one cell the user makes in the data editor.
Edicoes(pendente) ==
    {SemEdicao} \cup
    UNION { { [SemEdicao EXCEPT !.idx = pendente[i].idx, !.col = "Status",
                                !.Status = "Realizado"],
              [SemEdicao EXCEPT !.idx = pendente[i].idx, !.col = "Valor",
                                !.Valor = 7500],
              [SemEdicao EXCEPT !.idx = pendente[i].idx, !.col = "limpa_Valor"] }
            : i \in 1..Len(pendente) }

----------------------------------------------------------------------------
(* State *)

VARIABLES
    dtype_str,          \* the installed pandas is 3 or later (str dtype)
    planilha,           \* the remote spreadsheet (Record Source and Sink)
    cache,              \* the cached result of conn.read
    atualizacoes,       \* number of conn.update calls that succeeded
    fonte_dados,        \* the radio of line 27
    arquivo_upload,     \* the uploaded file, <<>> when none
    w_mes, w_bancos, w_categorias, w_status,   \* the widgets of lines 164-195
    usar_acumulado,     \* the toggle of line 230
    pc,                 \* "inicio", "pronto", "botao" (at line 617), "rerun";
                        \* "filtro", "filtrado", "refiltrado" in SpecFiltro
    stop,               \* the st.stop() the last run ended at, "" when none
    leu,                \* the run called conn.read
    botao_salvar,       \* the value of st.button in the run
    df, df_filtrado, saldo_anterior,
    total_receita_mes, total_despesa_mes, resultado_mes, saldo_final,
    despesa_futura, df_grafico, df_calc, df_timeline, extrato,
    df_pendente, df_edicao, df_passado

vars == <<dtype_str, planilha, cache, atualizacoes, fonte_dados, arquivo_upload,
          w_mes, w_bancos, w_categorias, w_status, usar_acumulado, pc, stop, leu,
          botao_salvar, df, df_filtrado, saldo_anterior, total_receita_mes,
          total_despesa_mes, resultado_mes, saldo_final, despesa_futura,
          df_grafico, df_calc, df_timeline, extrato, df_pendente, df_edicao,
          df_passado>>

\* Before the first run: line 42 (df = pd.DataFrame()), the default source of
\* line 30, no widget drawn yet.
Init ==
    /\ dtype_str \in BOOLEAN
    /\ planilha \in Planilhas
    /\ cache = <<>>
    /\ atualizacoes = 0
    /\ fonte_dados = "sheets"
    /\ arquivo_upload = <<>>
    /\ w_mes = MesNovo
    /\ w_bancos = WidgetNovo
    /\ w_categorias = WidgetNovo
    /\ w_status = WidgetNovo
    /\ usar_acumulado = TRUE
    /\ pc = "inicio"
    /\ stop = ""
    /\ leu = FALSE
    /\ botao_salvar = FALSE
    /\ df = <<>>
    /\ df_filtrado = <<>>
    /\ saldo_anterior = 0
    /\ total_receita_mes = 0
    /\ total_despesa_mes = 0
    /\ resultado_mes = 0
    /\ saldo_final = 0
    /\ despesa_futura = 0
    /\ df_grafico = <<>>
    /\ df_calc = <<>>
    /\ df_timeline = <<>>
    /\ extrato = <<>>
    /\ df_pendente = <<>>
    /\ df_edicao = <<>>
    /\ df_passado = <<>>

\* The assignments of one run r of the script; the run ends (or stops), or
\* stands at the pressed button of line 617.
Executa(r) ==
    /\ stop' = r.stop
    /\ leu' = r.leu
    /\ cache' = r.cache
    /\ botao_salvar' = r.botao_salvar
    /\ w_mes' = r.w_mes
    /\ w_bancos' = r.w_bancos
    /\ w_categorias' = r.w_categorias
    /\ w_status' = r.w_status
    /\ usar_acumulado' = r.usar_acumulado
    /\ df' = r.df
    /\ df_filtrado' = r.df_filtrado
    /\ saldo_anterior' = r.saldo_anterior
    /\ total_receita_mes' = r.total_receita_mes
    /\ total_despesa_mes' = r.total_despesa_mes
    /\ resultado_mes' = r.resultado_mes
    /\ saldo_final' = r.saldo_final
    /\ despesa_futura' = r.despesa_futura
    /\ df_grafico' = r.df_grafico
    /\ df_calc' = r.df_calc
    /\ df_timeline' = r.df_timeline
    /\ extrato' = r.extrato
    /\ df_pendente' = r.df_pendente
    /\ df_edicao' = r.df_edicao
    /\ df_passado' = r.df_passado
    /\ pc' = IF r.salvando THEN "botao" ELSE "pronto"

\* A run with the widgets as they stand, but for the given ones.
Roda(fonte, arquivo, ok, wm, wb, wc, ws, usar, botao, ed) ==
    Executa(Script([fonte |-> fonte, planilha |-> planilha, arquivo |-> arquivo,
                    leitura_ok |-> ok, wm |-> wm, wb |-> wb, wc |-> wc, ws |-> ws,
                    usar |-> usar, botao |-> botao, ed |-> ed,
                    dtype_str |-> dtype_str]))

\* The first run of the session.
Inicia ==
    /\ pc = "inicio"
    /\ \E ok \in BOOLEAN :
         Roda(fonte_dados, arquivo_upload, ok, w_mes, w_bancos, w_categorias,
              w_status, usar_acumulado, FALSE, SemEdicao)
    /\ UNCHANGED <<dtype_str, planilha, atualizacoes, fonte_dados, arquivo_upload>>

\* The user reloads the page: a run with nothing changed.
Recarrega ==
    /\ pc = "pronto"
    /\ \E ok \in BOOLEAN :
         Roda(fonte_dados, arquivo_upload, ok, w_mes, w_bancos, w_categorias,
              w_status, usar_acumulado, FALSE, SemEdicao)
    /\ UNCHANGED <<dtype_str, planilha, atualizacoes, fonte_dados, arquivo_upload>>

\* The user picks the other data source (line 27); the file uploader is drawn
\* anew.
TrocaFonte ==
    /\ pc = "pronto"
    /\ fonte_dados' = IF fonte_dados = "sheets" THEN "upload" ELSE "sheets"
    /\ arquivo_upload' = <<>>
    /\ \E ok \in BOOLEAN :
         Roda(fonte_dados', <<>>, ok, w_mes, w_bancos, w_categorias,
              w_status, usar_acumulado, FALSE, SemEdicao)
    /\ UNCHANGED <<dtype_str, planilha, atualizacoes>>

\* The user uploads a file (line 60).
EnviaArquivo ==
    /\ pc = "pronto"
    /\ fonte_dados = "upload"
    /\ arquivo_upload = <<>>
    /\ arquivo_upload' = <<ArquivoExemplo>>
    /\ \E ok \in BOOLEAN :
         Roda(fonte_dados, arquivo_upload', ok, w_mes, w_bancos, w_categorias,
              w_status, usar_acumulado, FALSE, SemEdicao)
    /\ UNCHANGED <<dtype_str, planilha, atualizacoes, fonte_dados>>

\* The user picks another month (line 164).
SelecionaMes ==
    /\ pc = "pronto"
    /\ \E m \in w_mes.opcoes \ {w_mes.valor}, ok \in BOOLEAN :
         Roda(fonte_dados, arquivo_upload, ok, [w_mes EXCEPT !.valor = m],
              w_bancos, w_categorias, w_status, usar_acumulado, FALSE, SemEdicao)
    /\ UNCHANGED <<dtype_str, planilha, atualizacoes, fonte_dados, arquivo_upload>>

\* The user changes the selected institutions (line 174).
SelecionaBancos ==
    /\ pc = "pronto"
    /\ \E s \in (SUBSET w_bancos.opcoes) \ {w_bancos.valor}, ok \in BOOLEAN :
         Roda(fonte_dados, arquivo_upload, ok, w_mes,
              [w_bancos EXCEPT !.valor = s], w_categorias, w_status,
              usar_acumulado, FALSE, SemEdicao)
    /\ UNCHANGED <<dtype_str, planilha, atualizacoes, fonte_dados, arquivo_upload>>

\* The user changes the selected categories (line 182).
SelecionaCategorias ==
    /\ pc = "pronto"
    /\ \E s \in (SUBSET w_categorias.opcoes) \ {w_categorias.valor}, ok \in BOOLEAN :
         Roda(fonte_dados, arquivo_upload, ok, w_mes, w_bancos,
              [w_categorias EXCEPT !.valor = s], w_status,
              usar_acumulado, FALSE, SemEdicao)
    /\ UNCHANGED <<dtype_str, planilha, atualizacoes, fonte_dados, arquivo_upload>>

\* The user changes the selected statuses (line 191).
SelecionaStatus ==
    /\ pc = "pronto"
    /\ \E s \in (SUBSET w_status.opcoes) \ {w_status.valor}, ok \in BOOLEAN :
         Roda(fonte_dados, arquivo_upload, ok, w_mes, w_bancos, w_categorias,
              [w_status EXCEPT !.valor = s], usar_acumulado, FALSE, SemEdicao)
    /\ UNCHANGED <<dtype_str, planilha, atualizacoes, fonte_dados, arquivo_upload>>

\* The user flips "Incluir Saldo Anterior?" (line 230), drawn when the run
\* reached the dashboard.
AlternaAcumulado ==
    /\ pc = "pronto"
    /\ stop = ""
    /\ \E ok \in BOOLEAN :
         Roda(fonte_dados, arquivo_upload, ok, w_mes, w_bancos, w_categorias,
              w_status, ~usar_acumulado, FALSE, SemEdicao)
    /\ UNCHANGED <<dtype_str, planilha, atualizacoes, fonte_dados, arquivo_upload>>

\* The user edits a cell of the pending table and presses the button of line
\* 617: the script runs from its top with the button set.
ClicaSalvar ==
    /\ pc = "pronto"
    /\ stop = ""
    /\ df_pendente # <<>>
    /\ atualizacoes < MaxSalvamentos
    /\ \E ed \in Edicoes(df_pendente), ok \in BOOLEAN :
         Roda(fonte_dados, arquivo_upload, ok, w_mes, w_bancos, w_categorias,
              w_status, usar_acumulado, TRUE, ed)
    /\ UNCHANGED <<dtype_str, planilha, atualizacoes, fonte_dados, arquivo_upload>>

\* Lines 617-630, conn.update returning: the ledger is updated in place, the
\* spreadsheet is overwritten, the cache cleared and a rerun asked for.
SalvaSucesso ==
    /\ pc = "botao"
    /\ fonte_dados = "sheets"
    /\ df' = Update(df, df_edicao)
    /\ planilha' = ParaPlanilha(df')
    /\ atualizacoes' = atualizacoes + 1
    /\ cache' = <<>>
    /\ pc' = "rerun"
    /\ UNCHANGED <<dtype_str, fonte_dados, arquivo_upload, w_mes, w_bancos, w_categorias,
                   w_status, usar_acumulado, stop, leu, botao_salvar, df_filtrado,
                   saldo_anterior, total_receita_mes, total_despesa_mes,
                   resultado_mes, saldo_final, despesa_futura, df_grafico, df_calc,
                   df_timeline, extrato, df_pendente, df_edicao, df_passado>>

\* Lines 617-635, conn.update raising (the sink refuses, or conn is not
\* defined because the data came from an upload): the ledger is updated in
\* place, the error is shown and the run ends.
SalvaFalha ==
    /\ pc = "botao"
    /\ df' = Update(df, df_edicao)
    /\ pc' = "pronto"
    /\ UNCHANGED <<dtype_str, planilha, cache, atualizacoes, fonte_dados, arquivo_upload,
                   w_mes, w_bancos, w_categorias, w_status, usar_acumulado, stop,
                   leu, botao_salvar, df_filtrado, saldo_anterior,
                   total_receita_mes, total_despesa_mes, resultado_mes,
                   saldo_final, despesa_futura, df_grafico, df_calc, df_timeline,
                   extrato, df_pendente, df_edicao, df_passado>>

\* Line 630: st.rerun() runs the script again from its top.
Rerun ==
    /\ pc = "rerun"
    /\ \E ok \in BOOLEAN :
         Roda(fonte_dados, arquivo_upload, ok, w_mes, w_bancos, w_categorias,
              w_status, usar_acumulado, FALSE, SemEdicao)
    /\ UNCHANGED <<dtype_str, planilha, atualizacoes, fonte_dados, arquivo_upload>>

Next ==
    \/ Inicia
    \/ Recarrega
    \/ TrocaFonte
    \/ EnviaArquivo
    \/ SelecionaMes
    \/ SelecionaBancos
    \/ SelecionaCategorias
    \/ SelecionaStatus
    \/ AlternaAcumulado
    \/ ClicaSalvar
    \/ SalvaSucesso
    \/ SalvaFalha
    \/ Rerun

Spec == Init /\ [][Next]_vars

\* Line 630: st.rerun() ends the run and the script runner starts the next one
\* at once, so a rerun that was asked for does happen.
SpecJusta == Spec /\ WF_vars(Rerun)

----------------------------------------------------------------------------
(* The filter of lines 199-207 on its own: any refined ledger, any Filter   *)
(* Specification, the filter applied once and then again to its own result. *)

\* The months, institutions, categories and statuses a Filter Specification
\* is drawn from; no ledger of the model has an entry in 2024-03.
EspecMeses == {StrfAnoMes(<<2024, 1, 1>>), StrfAnoMes(<<2024, 2, 1>>),
               StrfAnoMes(<<2024, 3, 1>>)}

EspecBancos == SUBSET {"Nubank", "Itau"}

EspecCategorias == SUBSET {"Casa"}

EspecStatus == SUBSET {"Realizado", "Projetado"}

\* The ledger is refined from a spreadsheet (lines 100-157) and the widgets
\* hold a Filter Specification.
InitFiltro ==
    /\ dtype_str \in BOOLEAN
    /\ planilha \in Planilhas
    /\ Refinaria(planilha, dtype_str).stop = ""
    /\ df = ComMesReferencia(Refinaria(planilha, dtype_str).df)
    /\ w_mes \in [opcoes : {EspecMeses}, valor : EspecMeses]
    /\ w_bancos \in [opcoes : {UNION EspecBancos}, valor : EspecBancos]
    /\ w_categorias \in [opcoes : {UNION EspecCategorias}, valor : EspecCategorias]
    /\ w_status \in [opcoes : {UNION EspecStatus}, valor : EspecStatus]
    /\ pc = "filtro"
    /\ cache = <<>>
    /\ atualizacoes = 0
    /\ fonte_dados = "sheets"
    /\ arquivo_upload = <<>>
    /\ usar_acumulado = TRUE
    /\ stop = ""
    /\ leu = FALSE
    /\ botao_salvar = FALSE
    /\ df_filtrado = <<>>
    /\ saldo_anterior = 0
    /\ total_receita_mes = 0
    /\ total_despesa_mes = 0
    /\ resultado_mes = 0
    /\ saldo_final = 0
    /\ despesa_futura = 0
    /\ df_grafico = <<>>
    /\ df_calc = <<>>
    /\ df_timeline = <<>>
    /\ extrato = <<>>
    /\ df_pendente = <<>>
    /\ df_edicao = <<>>
    /\ df_passado = <<>>

\* Lines 199-207 on the ledger.
AplicaFiltro ==
    /\ pc = "filtro"
    /\ df_filtrado' = Filtrado(df, w_mes.valor, w_bancos.valor,
                               w_categorias.valor, w_status.valor)
    /\ pc' = "filtrado"
    /\ UNCHANGED <<dtype_str, planilha, cache, atualizacoes, fonte_dados,
                   arquivo_upload, w_mes, w_bancos, w_categorias, w_status,
                   usar_acumulado, stop, leu, botao_salvar, df, saldo_anterior,
                   total_receita_mes, total_despesa_mes, resultado_mes,
                   saldo_final, despesa_futura, df_grafico, df_calc, df_timeline,
                   extrato, df_pendente, df_edicao, df_passado>>

\* Lines 199-207 on the subset they returned, with the same specification.
ReaplicaFiltro ==
    /\ pc = "filtrado"
    /\ df_filtrado' = Filtrado(df_filtrado, w_mes.valor, w_bancos.valor,
                               w_categorias.valor, w_status.valor)
    /\ pc' = "refiltrado"
    /\ UNCHANGED <<dtype_str, planilha, cache, atualizacoes, fonte_dados,
                   arquivo_upload, w_mes, w_bancos, w_categorias, w_status,
                   usar_acumulado, stop, leu, botao_salvar, df, saldo_anterior,
                   total_receita_mes, total_despesa_mes, resultado_mes,
                   saldo_final, despesa_futura, df_grafico, df_calc, df_timeline,
                   extrato, df_pendente, df_edicao, df_passado>>

NextFiltro ==
    \/ AplicaFiltro
    \/ ReaplicaFiltro

SpecFiltro == InitFiltro /\ [][NextFiltro]_vars

----------------------------------------------------------------------------
(* Properties *)

\* The Signed Amount of an entry: +amount for Receita, -amount otherwise.
ValorAssinado(r) == IF r.Tipo_Movimento = "Receita" THEN r.Valor ELSE 0 - r.Valor

\* The sum of the Signed Amounts of the first n rows of s.
RECURSIVE SomaAte(_, _)
SomaAte(s, n) == IF n = 0 THEN 0 ELSE SomaAte(s, n - 1) + ValorAssinado(s[n])

\* s is sorted ascending by transaction date.
Crescente(s) ==
    \A i, j \in 1..Len(s) :
        i < j => ~DataMenor(s[j].Data_Transacao, s[i].Data_Transacao)

\* The index labels of the rows of s.
Rotulos(s) == {s[i].idx : i \in 1..Len(s)}

\* The carry-over base of the run: saldo_anterior in cumulative mode, 0 in
\* isolated mode.
BaseB == IF usar_acumulado THEN saldo_anterior ELSE 0

LinhasDe(s) == [i \in 1..Len(s) |-> s[i].lin]

\* C1: in the balance chart (df_grafico) and in the daily-statement pass
\* (df_calc) the filtered subset is sorted ascending by date, and the running
\* balance of the i-th entry is the carry-over base B (0 in isolated mode)
\* plus the sum of the Signed Amounts of entries 1..i; so the last entry
\* carries B plus the sum over the whole subset.
C1_SaldoAcumuladoPrefixo ==
    /\ Len(df_grafico) = Len(df_filtrado)
    /\ Len(df_calc) = Len(df_filtrado)
    /\ Rotulos(LinhasDe(df_grafico)) = Rotulos(df_filtrado)
    /\ Rotulos(LinhasDe(df_calc)) = Rotulos(df_filtrado)
    /\ Crescente(LinhasDe(df_grafico))
    /\ Crescente(LinhasDe(df_calc))
    /\ \A i \in 1..Len(df_grafico) :
         df_grafico[i].Saldo_Acumulado = BaseB + SomaAte(LinhasDe(df_grafico), i)
    /\ \A i \in 1..Len(df_calc) :
         df_calc[i].Saldo_Acumulado_Ate_Aqui = BaseB + SomaAte(LinhasDe(df_calc), i)

\* C1 witness: the carry-over base is 500.00 and the month's Signed Amounts are
\* +100.00 and -50.00, giving the running balances 600.00 and 550.00.
C1_Witness ==
    /\ stop = "" /\ usar_acumulado /\ saldo_anterior = 50000
    /\ [i \in 1..Len(df_calc) |-> df_calc[i].Valor_Real] = <<10000, -5000>>
    /\ [i \in 1..Len(df_calc) |-> df_calc[i].Saldo_Acumulado_Ate_Aqui]
         = <<60000, 55000>>
    /\ [i \in 1..Len(df_grafico) |-> df_grafico[i].Saldo_Acumulado]
         = <<60000, 55000>>

\* The sum of the Signed Amounts of the rows of s dated on or before dia.
SomaAteDia(s, dia) ==
    Soma([i \in 1..Len(s) |->
            IF DataMenor(dia, s[i].Data_Transacao) THEN 0 ELSE ValorAssinado(s[i])])

\* The days of the rows of s.
DiasDe(s) == {s[i].Data_Transacao : i \in 1..Len(s)}

\* C2 (as stated): for every day D of the filtered subset, the closing balance
\* the daily statement reports for D is the carry-over base plus the sum of the
\* Signed Amounts of all subset entries dated on or before D, also when
\* several entries share the date.
C2_FechamentoDoDia ==
    /\ stop = "" => {extrato[k].dia : k \in 1..Len(extrato)} = DiasDe(df_filtrado)
    /\ \A k \in 1..Len(extrato) :
         extrato[k].saldo_total_acumulado
           = BaseB + SomaAteDia(df_filtrado, extrato[k].dia)

\* C2 (what lines 472 and 502 compute): the descending re-sort keeps the
\* entries of one day in their ascending-pass order, so the first row of the
\* day's group is the day's first entry, and the reported balance is the
\* running balance after that entry alone.
C2_SaldoDaPrimeiraLinha ==
    \A k \in 1..Len(extrato) :
      \E i \in 1..Len(df_calc) :
        /\ df_calc[i].lin.Data_Transacao = extrato[k].dia
        /\ \A j \in 1..(i - 1) : df_calc[j].lin.Data_Transacao # extrato[k].dia
        /\ extrato[k].saldo_total_acumulado = df_calc[i].Saldo_Acumulado_Ate_Aqui

\* C2 diverging state: 2024-02-03 holds a revenue of 100.00 and an expense of
\* 50.00 and nothing precedes them; the day's closing balance is 50.00 and the
\* statement reports 100.00.
C2_Witness ==
    /\ stop = "" /\ BaseB = 0
    /\ Len(extrato) = 1 /\ Len(extrato[1].idxs) = 2
    /\ extrato[1].dia = <<2024, 2, 3>>
    /\ SomaAteDia(df_filtrado, extrato[1].dia) = 5000
    /\ extrato[1].saldo_total_acumulado = 10000

\* The table the last run refined: the spreadsheet, or the uploaded file.
Fonte == IF fonte_dados = "sheets" THEN planilha ELSE arquivo_upload[1]

\* df is the ledger as the refinery of the last run left it: the run got past
\* the refinery and no save has merged edits into df since.
Refinado ==
    /\ pc \in {"pronto", "botao"}
    /\ stop \in {"", "sem_dados"}
    /\ pc = "botao" \/ ~botao_salvar

\* The raw row the ledger row r was read from (the index label is the position
\* in the table as read).
Crua(r) == Fonte.rows[r.idx + 1]

\* C3 (as stated): after the refinery the amount of every ledger entry is >= 0,
\* whatever the raw amount cell held, negative numbers included.
C3_ValorNaoNegativo == \A i \in 1..Len(df) : df[i].Valor >= 0

\* C3 diverging state: the raw cell holds the number -50 and the ledger entry
\* carries the amount -50.00 (lines 116-121 never take an absolute value).
C3_Witness ==
    /\ Refinado
    /\ \E i \in 1..Len(df) : Crua(df[i]).Valor = IntC(-50) /\ df[i].Valor = -5000

\* The text a cell of a text column should become by the rule of C9.
TextoEsperado(tabela, linha, col) ==
    IF col \notin tabela.cols THEN "Não Informado"
    ELSE IF linha[col].t = "nan" THEN "-" ELSE linha[col].x

\* C9 (as stated): in each text column, an absent column gives "Não Informado"
\* in every entry, a blank cell of a present column gives "-", and a non-blank
\* cell keeps its text.
C9_ColunasDeTexto ==
    Refinado =>
      \A i \in 1..Len(df), col \in ColunasTexto :
        df[i][col] = TextoEsperado(Fonte, Crua(df[i]), col)

\* C9 (what line 140 computes): astype(str) runs before fillna("-"), so up to
\* pandas 2 a blank cell becomes the text "nan" and fillna finds nothing to
\* fill; from pandas 3 on the blank survives astype(str) and becomes "-".
C9_TextoReal ==
    Refinado =>
      \A i \in 1..Len(df), col \in ColunasTexto :
        df[i][col] = IF col \in Fonte.cols /\ Crua(df[i])[col].t = "nan" /\ ~dtype_str
                     THEN "nan"
                     ELSE TextoEsperado(Fonte, Crua(df[i]), col)

\* C9 diverging state: the institution cell of a raw row is blank and the
\* ledger entry carries the institution "nan".
C9_Witness ==
    /\ Refinado /\ "Instituicao" \in Fonte.cols
    /\ \E i \in 1..Len(df) :
         Crua(df[i]).Instituicao = NaN /\ df[i].Instituicao = "nan"

\* The amount a raw cell should become by the rule of C10, in hundredths.
ValorEsperado(c) ==
    CASE c.t \in {"int", "float"} -> Centavos(c)
      [] c.t = "str" ->
           LET r == ToNumericStr(VirgulaParaPonto(RemovePontos(c.s)))
           IN  IF r.ok THEN r.v ELSE 0
      [] OTHER -> 0

\* C10 (as stated): the amount is normalized cell by cell: locale text gives
\* its number, a numeric cell keeps its value whatever the other cells of the
\* column hold, and an unparseable cell gives 0.0 with its row kept.
C10_ValorPorCelula ==
    Refinado =>
      /\ \A i \in 1..Len(df) : df[i].Valor = ValorEsperado(Crua(df[i]).Valor)
      /\ \A k \in 1..Len(Fonte.rows) :
           ToDatetime(Fonte.rows[k].Data_Transacao) # NaT
             => \E i \in 1..Len(df) : df[i].idx = k - 1

\* C10 diverging state: the column holds the text "1.234,56" in one row and
\* the number 200.5 in another; the first becomes 1234.56 and the second
\* 2005.0, its decimal point removed as a thousands separator (line 118).
C10_Witness ==
    /\ Refinado
    /\ \E i, j \in 1..Len(df) :
         /\ Crua(df[i]).Valor = Str(<<"1", ".", "2", "3", "4", ",", "5", "6">>)
         /\ df[i].Valor = 123456
         /\ Crua(df[j]).Valor = FloatC(20050)
         /\ df[j].Valor = 200500

\* The positions of the raw rows whose date does not parse.
SemData(tabela) ==
    {k \in 1..Len(tabela.rows) : ToDatetime(tabela.rows[k].Data_Transacao) = NaT}

\* Every row of s has a valid date and is a row of the ledger.
SoLinhasDatadas(s) ==
    \A i \in 1..Len(s) : s[i].Data_Transacao # NaT /\ s[i].idx \in Rotulos(df)

\* C4: every ledger entry has a valid date; a raw row whose date does not
\* parse is left out even when its amount and type are valid, the ledger is
\* shorter than the raw table by the number of such rows, and none of them
\* appears in the filtered subset, the prior subset, the running-balance
\* passes or the daily statement.
C4_DatasValidas ==
    /\ \A i \in 1..Len(df) : df[i].Data_Transacao # NaT
    /\ Refinado =>
         /\ Len(df) = Len(Fonte.rows) - Cardinality(SemData(Fonte))
         /\ \A i \in 1..Len(df) :
              /\ df[i].idx + 1 \in (1..Len(Fonte.rows)) \ SemData(Fonte)
              /\ df[i].Data_Transacao = ToDatetime(Crua(df[i]).Data_Transacao)
    /\ SoLinhasDatadas(df_filtrado)
    /\ SoLinhasDatadas(df_passado)
    /\ SoLinhasDatadas(LinhasDe(df_grafico))
    /\ SoLinhasDatadas(LinhasDe(df_calc))
    /\ SoLinhasDatadas(LinhasDe(df_timeline))
    /\ \A k \in 1..Len(extrato) :
         /\ extrato[k].dia # NaT
         /\ \A i \in 1..Len(extrato[k].idxs) : extrato[k].idxs[i] \in Rotulos(df)

\* C4 witness: the raw table holds an expense of 200 dated 2024-02-30 and
\* other rows; the ledger holds the other rows only and the dashboard is drawn.
C4_Witness ==
    /\ Refinado /\ stop = ""
    /\ \E k \in SemData(Fonte) :
         /\ Fonte.rows[k].Data_Transacao = Str(Iso(2024, 2, 30))
         /\ Fonte.rows[k].Valor = IntC(200)
         /\ Fonte.rows[k].Tipo_Movimento = Txt("Despesa")
         /\ k - 1 \notin Rotulos(df)
    /\ Len(df) = Len(Fonte.rows) - 1
    /\ Len(df_filtrado) >= 1

\* The first day of the month the filtered subset belongs to.
PrimeiroDiaDoMes ==
    <<df_filtrado[1].Data_Transacao[1], df_filtrado[1].Data_Transacao[2], 1>>

\* The ledger entries of the prior subset: dated strictly before the first day
\* of the selected month, with institution, category and status selected.
EhAnterior(r) ==
    /\ DataMenor(r.Data_Transacao, PrimeiroDiaDoMes)
    /\ r.Instituicao \in w_bancos.valor
    /\ r.Categoria_Macro \in w_categorias.valor
    /\ r.Status \in w_status.valor

\* C5: in cumulative mode the carry-over base is the sum of the Signed Amounts
\* of exactly the ledger entries dated strictly before the first day of the
\* selected month whose institution, category and status are selected (the
\* month filter does not apply; the first day of the month and later never
\* count); in isolated mode it is 0.
C5_SaldoAnterior ==
    Refinado /\ stop = "" =>
      /\ \A i \in 1..Len(df_filtrado) :
           StrfAnoMes(df_filtrado[i].Data_Transacao) = w_mes.valor
      /\ IF usar_acumulado
         THEN /\ Rotulos(df_passado) = {df[i].idx : i \in {j \in 1..Len(df) : EhAnterior(df[j])}}
              /\ Len(df_passado) = Cardinality(Rotulos(df_passado))
              /\ saldo_anterior =
                   Soma([i \in 1..Len(df) |->
                           IF EhAnterior(df[i]) THEN ValorAssinado(df[i]) ELSE 0])
         ELSE saldo_anterior = 0 /\ df_passado = <<>>

\* C5 witness: February is selected with the status Realizado only; January
\* holds a realized revenue of 500.00 and a projected expense of 20.00, and
\* an expense is dated 2024-02-01; the carry-over base is 500.00.
C5_Witness ==
    /\ Refinado /\ stop = "" /\ usar_acumulado
    /\ w_status.valor = {"Realizado"}
    /\ PrimeiroDiaDoMes = <<2024, 2, 1>>
    /\ \E i \in 1..Len(df) :
         df[i].Data_Transacao = <<2024, 1, 20>> /\ df[i].Status = "Projetado"
    /\ \E i \in 1..Len(df_filtrado) : df_filtrado[i].Data_Transacao = <<2024, 2, 1>>
    /\ saldo_anterior = 50000

\* C5 witness of the isolated mode: entries precede the selected month and the
\* carry-over base is 0.
C5_WitnessIsolado ==
    /\ Refinado /\ stop = "" /\ ~usar_acumulado
    /\ \E i \in 1..Len(df) : EhAnterior(df[i])
    /\ saldo_anterior = 0

\* C6 (as stated): when the save is triggered and the update of the sink
\* fails, the in-memory ledger after the failed save is the ledger as it was
\* before the save was triggered.
C6_FalhaNaoMutaLedger ==
    [][pc = "botao" /\ pc' = "pronto" /\ atualizacoes' = atualizacoes
         => df' = df]_vars

\* C6 diverging state: the user set a pending expense to Realizado, the update
\* of the sink failed, nothing was written, and the entry of the in-memory
\* ledger is Realizado (line 622 updates df in place before line 627 is tried).
C6_Witness ==
    /\ pc = "pronto" /\ botao_salvar /\ stop = "" /\ atualizacoes = 0
    /\ \E i \in 1..Len(df), j \in 1..Len(df_pendente) :
         /\ df[i].idx = df_pendente[j].idx
         /\ df_pendente[j].Status = "Projetado"
         /\ df[i].Status = "Realizado"

\* The spreadsheet row of the ledger row r, the cells of the columns in na
\* left blank.
LinhaGravada(r, na) ==
    [Data_Transacao |-> IF "Data_Transacao" \in na THEN NaN ELSE Ts(r.Data_Transacao),
     Valor |-> IF "Valor" \in na THEN NaN ELSE FloatC(r.Valor),
     Status |-> Txt(r.Status),
     Instituicao |-> Txt(r.Instituicao),
     Tipo_Movimento |-> Txt(r.Tipo_Movimento),
     Categoria_Macro |-> Txt(r.Categoria_Macro),
     Descricao |-> Txt(r.Descricao),
     Mes_Referencia |-> Str(r.Mes_Referencia),
     Valor_Sinal |-> r.Valor_Sinal]

\* The row of the data editor for the ledger row r; <<>> when r is not pending.
Editada(r) ==
    LET EhDeR(e) == e.lin.idx = r.idx
    IN  SelectSeq(df_edicao, EhDeR)

\* C7 (as stated): the save writes the whole in-memory ledger, one row per
\* entry in the ledger's order whatever the filters are; each pending entry
\* carries the values the data editor holds for it, a cell the user emptied
\* included, and every other entry is as it was.
C7_EdicoesGravadas ==
    [][atualizacoes' # atualizacoes =>
         /\ Len(planilha'.rows) = Len(df)
         /\ \A i \in 1..Len(df) :
              planilha'.rows[i] =
                IF Editada(df[i]) = <<>> THEN LinhaGravada(df[i], {})
                ELSE LinhaGravada(Editada(df[i])[1].lin, Editada(df[i])[1].na)]_vars

\* C7 (what lines 622 and 627 do): DataFrame.update takes only the cells of
\* the editor that are not blank, so a pending entry is written with its
\* edited values except for a cell the user emptied, which keeps its old value.
C7_EdicoesNaoVaziasGravadas ==
    [][atualizacoes' # atualizacoes =>
         /\ Len(planilha'.rows) = Len(df)
         /\ \A i \in 1..Len(df) :
              planilha'.rows[i] =
                IF Editada(df[i]) = <<>> THEN LinhaGravada(df[i], {})
                ELSE LinhaGravada(
                       [Editada(df[i])[1].lin EXCEPT
                          !.Valor = IF "Valor" \in Editada(df[i])[1].na
                                    THEN df[i].Valor ELSE @],
                       {})]_vars

\* C7 diverging state: the user emptied the amount of a pending expense and
\* saved; the row written to the spreadsheet carries the old amount.
C7_Witness ==
    /\ pc = "rerun" /\ atualizacoes = 1
    /\ \E i \in 1..Len(df), j \in 1..Len(df_edicao) :
         /\ df_edicao[j].na = {"Valor"}
         /\ df_edicao[j].lin.idx = df[i].idx
         /\ planilha.rows[i].Valor = FloatC(df_pendente[j].Valor)

\* C8: the sink is updated only in a run in which the user pressed the save
\* button (never in a run started by a filter, the upload, the toggle or a
\* reload); a successful update clears the cached read and asks for a rerun in
\* the same step, nothing but that rerun can follow, and the rerun does follow
\* and reads the source again before it computes anything.
C8_SalvaSoComBotao ==
    /\ [][/\ pc' = "botao" => botao_salvar'
          /\ (atualizacoes' # atualizacoes \/ planilha' # planilha) =>
               /\ pc = "botao" /\ botao_salvar
               /\ atualizacoes' = atualizacoes + 1
               /\ cache' = <<>>
               /\ pc' = "rerun"
          /\ pc = "rerun" =>
               /\ leu' /\ ~botao_salvar' /\ pc' = "pronto"
               /\ planilha' = planilha
               /\ cache' \in {<<>>, <<planilha>>}
               /\ stop' \notin {"erro_conexao", "vazia"} => cache' = <<planilha>>]_vars
    /\ (pc = "rerun") ~> (pc = "pronto" /\ leu /\ ~botao_salvar)

\* C8 witness: a save succeeded and the rerun it asked for has read the
\* written spreadsheet again.
C8_Witness ==
    /\ pc = "pronto" /\ atualizacoes = 1 /\ leu /\ ~botao_salvar
    /\ stop = "" /\ cache = <<planilha>>
    /\ \E i \in 1..Len(df) : Crua(df[i]).Valor = FloatC(df[i].Valor)

\* An entry whose movement type is neither Receita nor Despesa.
Neutra(r) == r.Tipo_Movimento \notin {"Receita", "Despesa"}

\* The sum over the rows of s of +amount for Receita, -amount for Despesa and
\* nothing for any other movement type.
SomaSemNeutras(s) ==
    Soma([i \in 1..Len(s) |-> IF Neutra(s[i]) THEN 0 ELSE ValorAssinado(s[i])])

\* The ledger entries the filters of the sidebar select.
Selecionada(r) ==
    /\ r.Mes_Referencia = w_mes.valor
    /\ r.Instituicao \in w_bancos.valor
    /\ r.Categoria_Macro \in w_categorias.valor
    /\ r.Status \in w_status.valor

\* The prior entries of the ledger, in ledger order.
Anteriores == SelectSeq(df, EhAnterior)

\* C11 (as stated): an entry whose movement type is neither Receita nor
\* Despesa is selected by the filters like any other, and counts in none of
\* the KPI sums: total income, total expense, forecast expense, period net,
\* carry-over base and final balance are what they are without such entries.
C11_NeutrasForaDosKPIs ==
    Refinado /\ stop = "" =>
      /\ \A i \in 1..Len(df) :
           Selecionada(df[i]) => df[i].idx \in Rotulos(df_filtrado)
      /\ total_receita_mes - total_despesa_mes = SomaSemNeutras(df_filtrado)
      /\ resultado_mes = SomaSemNeutras(df_filtrado)
      /\ despesa_futura = DespesaFutura(SelectSeq(df_filtrado, LAMBDA r : ~Neutra(r)))
      /\ saldo_anterior = IF usar_acumulado THEN SomaSemNeutras(Anteriores) ELSE 0
      /\ saldo_final = (IF usar_acumulado THEN SomaSemNeutras(Anteriores) ELSE 0)
                         + SomaSemNeutras(df_filtrado)

\* C11 (what lines 243-280 compute): the sums of the selected month count only
\* Receita and Despesa, so an entry of another type changes none of total
\* income, total expense, forecast expense and period net; the carry-over base
\* takes every entry that is not Receita as an outflow (line 243).
C11_KPIsReais ==
    Refinado /\ stop = "" =>
      /\ resultado_mes = total_receita_mes - total_despesa_mes
      /\ resultado_mes = SomaSemNeutras(df_filtrado)
      /\ despesa_futura = DespesaFutura(SelectSeq(df_filtrado, LAMBDA r : ~Neutra(r)))
      /\ usar_acumulado =>
           saldo_anterior = SomaSemNeutras(Anteriores)
                              - Soma([i \in 1..Len(Anteriores) |->
                                        IF Neutra(Anteriores[i])
                                        THEN Anteriores[i].Valor ELSE 0])

\* C11 diverging state: February is selected in cumulative mode, the only
\* entry before February is a Transferencia of 70.00 and February holds a
\* revenue of 100.00; the carry-over base is -70.00 and the final balance
\* 30.00, where without the Transferencia they are 0.00 and 100.00.
C11_Witness ==
    /\ Refinado /\ stop = "" /\ usar_acumulado
    /\ Len(Anteriores) = 1 /\ Anteriores[1].Tipo_Movimento = "Transferencia"
    /\ Anteriores[1].Valor = 7000
    /\ total_receita_mes = 10000 /\ total_despesa_mes = 0
    /\ saldo_anterior = -7000 /\ saldo_final = 3000

\* The last element of a non-empty sequence.
Ultimo(s) == s[Len(s)]

\* C13 (as stated): whenever the dashboard is drawn, in both modes and
\* whatever the movement types are, the final-balance KPI equals the running
\* balance of the chronologically last entry of the balance chart and of the
\* daily statement.
C13_SaldoFinalIgualAoUltimoSaldo ==
    stop = "" /\ df_filtrado # <<>> =>
      /\ saldo_final = Ultimo(df_grafico).Saldo_Acumulado
      /\ saldo_final = Ultimo(df_calc).Saldo_Acumulado_Ate_Aqui

\* C13 (what lines 259-274, 308 and 461 compute): the KPI adds Receita and
\* subtracts Despesa only, while the running balance subtracts every entry
\* that is not Receita; the two differ by the amounts of the entries of other
\* types in the filtered subset, and agree when there are none.
C13_DiferencaDasNeutras ==
    stop = "" /\ df_filtrado # <<>> =>
      /\ Ultimo(df_grafico).Saldo_Acumulado
           = saldo_final - Soma([i \in 1..Len(df_filtrado) |->
                                   IF Neutra(df_filtrado[i])
                                   THEN df_filtrado[i].Valor ELSE 0])
      /\ Ultimo(df_calc).Saldo_Acumulado_Ate_Aqui = Ultimo(df_grafico).Saldo_Acumulado

\* C13 diverging state: the selected month holds a revenue of 500.00 and a
\* Transferencia of 70.00; the final-balance KPI is 500.00 and the last
\* running balance of the chart and of the statement is 430.00.
C13_Witness ==
    /\ stop = "" /\ Len(df_filtrado) = 2 /\ saldo_anterior = 0
    /\ \E i \in 1..2 : df_filtrado[i].Tipo_Movimento = "Transferencia"
                        /\ df_filtrado[i].Valor = 7000
    /\ saldo_final = 50000
    /\ Ultimo(df_grafico).Saldo_Acumulado = 43000
    /\ Ultimo(df_calc).Saldo_Acumulado_Ate_Aqui = 43000

\* The year and month a Year-Month key names.
AnoMes(chave) ==
    CASE chave = <<"2", "0", "2", "4", "-", "0", "1">> -> <<2024, 1>>
      [] chave = <<"2", "0", "2", "4", "-", "0", "2">> -> <<2024, 2>>
      [] chave = <<"2", "0", "2", "4", "-", "0", "3">> -> <<2024, 3>>
      [] OTHER -> <<0, 0>>

\* The entry r falls in the selected calendar month and its institution,
\* category and status are selected.
Casa(r) ==
    /\ <<r.Data_Transacao[1], r.Data_Transacao[2]>> = AnoMes(w_mes.valor)
    /\ r.Instituicao \in w_bancos.valor
    /\ r.Categoria_Macro \in w_categorias.valor
    /\ r.Status \in w_status.valor

\* df_filtrado holds the result of the filter on the ledger df.
FiltroAplicado ==
    \/ pc \in {"filtrado", "refiltrado"}
    \/ Refinado /\ w_mes.valor # <<>>

\* The rows of s without what line 243 writes: in a run of the script the
\* column Valor_Sinal is assigned on df after df_filtrado was cut from it.
SemValorSinal(s) ==
    IF pc \in {"filtrado", "refiltrado"} THEN s
    ELSE [i \in 1..Len(s) |-> [s[i] EXCEPT !.Valor_Sinal = NaN]]

\* C12: the filter returns exactly the ledger entries whose Year-Month is the
\* selected month and whose institution, category and status are selected, in
\* ledger order; it returns nothing when no entry falls in the selected
\* month; and applied again to its own result with the same specification it
\* returns the same subset.
C12_FiltroExato ==
    /\ [](FiltroAplicado =>
            /\ SemValorSinal(df_filtrado) = SemValorSinal(SelectSeq(df, Casa))
            /\ (\A i \in 1..Len(df) :
                  <<df[i].Data_Transacao[1], df[i].Data_Transacao[2]>>
                    # AnoMes(w_mes.valor))
                 => df_filtrado = <<>>)
    /\ [][pc' = "refiltrado" => df_filtrado' = df_filtrado]_vars

\* C12 witness: the filter was applied twice to a ledger of three entries, of
\* which it keeps two in ledger order and leaves one out for its status.
C12_Witness ==
    /\ pc = "refiltrado" /\ Len(df) = 3 /\ Len(df_filtrado) = 2
    /\ df_filtrado[1].idx # df_filtrado[2].idx
    /\ \E i \in 1..3 : /\ df[i].Status \notin w_status.valor
                        /\ df[i].Instituicao \in w_bancos.valor
                        /\ df[i].Mes_Referencia = w_mes.valor

\* C12 witness of the empty month: the ledger has entries, none of them in
\* 2024-03, every institution, category and status is selected, and the filter
\* by 2024-03 returned nothing.
C12_WitnessMesVazio ==
    /\ pc = "filtrado" /\ Len(df) = 3 /\ AnoMes(w_mes.valor) = <<2024, 3>>
    /\ \A i \in 1..3 : /\ df[i].Instituicao \in w_bancos.valor
                        /\ df[i].Categoria_Macro \in w_categorias.valor
                        /\ df[i].Status \in w_status.valor
    /\ df_filtrado = <<>>

====
